---------------------------- MODULE Spec2Model ----------------------------
(***************************************************************************)
(* A model of scraper.py, the portfolio jobs scraper.                      *)
(*                                                                         *)
(* Strings (URLs, HTML text, slugs) are sequences of tokens.  A token is   *)
(* a maximal piece of text that the program's patterns never split: a word *)
(* made of the slug characters [a-zA-Z0-9_-], or a piece of punctuation.   *)
(* Substring tests and regular-expression searches are computed on these   *)
(* sequences the way the code computes them on characters.                 *)
(***************************************************************************)
EXTENDS Naturals, Integers, Sequences, FiniteSets, TLC

VARIABLES
    fixture,      \* classifier input: the parts the synthetic text is made of
    page_url,     \* classifier input: the URL of the page the text came from
    html_result,  \* what detect_ats_from_html returned on the text
    url_result,   \* what detect_ats_from_url returned on the text
    company,      \* the company record scrape_company is called on
    siteDown,     \* whether the host of the company's website is unreachable
    sc,           \* the running call of scrape_company: position, locals, calls made
    file,         \* companies.json
    companies,    \* main: the loaded and filtered list
    idx,          \* main: the loop index i
    all_jobs,     \* main: all_jobs
    failed,       \* main: failed
    logged,       \* main: the names logged at the head of each iteration
    output,       \* main: the report written to jobs.json
    mpc           \* main: position

cvars == <<fixture, page_url, html_result, url_result>>
mvars == <<file, companies, idx, all_jobs, failed, logged, output, mpc>>
vars == <<fixture, page_url, html_result, url_result, company, siteDown, sc,
          file, companies, idx, all_jobs, failed, logged, output, mpc>>

-----------------------------------------------------------------------------
(* Bounds *)

\* the number of parts a synthetic classifier input is made of
MaxParts == 2

\* the number of conventional paths of JOBS_PATHS the model keeps
MaxPaths == 2

\* the number of records of companies.json
MaxCompanies == 2

-----------------------------------------------------------------------------
(* Strings as token sequences *)

\* the tokens that are not made of the slug characters [a-zA-Z0-9_-]
NonSlugTok == {".", "/", "=", "?", " ", "://", "[", "#"}

IsSlugTok(t) == t \notin NonSlugTok

Min(S) == CHOOSE x \in S : \A y \in S : x <= y

\* Python's `needle in hay`
Contains(hay, needle) ==
    \E i \in 1..(Len(hay) - Len(needle) + 1) :
        SubSeq(hay, i, i + Len(needle) - 1) = needle

\* the maximal run of slug tokens of s that starts at position i: the group
\* ([a-zA-Z0-9_-]+) is greedy
RECURSIVE SlugRun(_, _)
SlugRun(s, i) ==
    IF i > Len(s) \/ ~IsSlugTok(s[i]) THEN <<>>
    ELSE <<s[i]>> \o SlugRun(s, i + 1)

\* a failed re.search (a match of the slug group is never empty)
NoMatch == <<>>

\* re.search(lit + '([a-zA-Z0-9_-]+)', s).group(1): the slug after the leftmost
\* occurrence of the literal that a slug character follows
re_search(lit, s) ==
    LET hits == {i \in 1..(Len(s) - Len(lit)) :
                    /\ SubSeq(s, i, i + Len(lit) - 1) = lit
                    /\ IsSlugTok(s[i + Len(lit)])}
    IN  IF hits = {} THEN NoMatch ELSE SlugRun(s, Min(hits) + Len(lit))

\* Python's `a or b` on match objects
OrElse(a, b) == IF a # NoMatch THEN a ELSE b

-----------------------------------------------------------------------------
(* ATS detection *)

\* the literal prefixes of the slug patterns
PatBoards    == <<"boards", ".", "greenhouse", ".", "io", "/">>
PatJobBoards == <<"job", "-", "boards", ".", "greenhouse", ".", "io", "/">>
PatEmbed     == <<"greenhouse", ".", "io", "/", "embed", "/", "job_board", "?", "for", "=">>
PatLever     == <<"jobs", ".", "lever", ".", "co", "/">>
PatAshbyJobs == <<"jobs", ".", "ashbyhq", ".", "com", "/">>
PatAshby     == <<"ashbyhq", ".", "com", "/">>
PatWorkable  == <<"apply", ".", "workable", ".", "com", "/">>
PatRippling  == <<"ats", ".", "rippling", ".", "com", "/">>

\* the signature substrings detect_ats_from_html looks for
SigAshbyJid     == <<"ashby_jid", "=">>
SigAshbyJobs    == <<"jobs", ".", "ashbyhq", ".", "com">>
SigGreenhouse   == <<"greenhouse", ".", "io">>
SigGrnh         == <<"grnh", ".", "se">>
SigLever        == <<"lever", ".", "co">>
SigApplyWork    == <<"apply", ".", "workable", ".", "com">>
SigWorkable     == <<"workable", ".", "com">>
SigRippling     == <<"ats", ".", "rippling", ".", "com">>
SigRipplingAts  == <<"rippling", "-", "ats", ".", "com">>

\* Python's None in the ats position; an absent (None) slug is the empty string
NoAts == "None"
NoSlug == <<>>
Unknown == [ats |-> NoAts, slug |-> NoSlug]

\* a faulty variant of Found: the kind is kept when the slug search fails
Found_keeps_kind(ats, m) == [ats |-> ats, slug |-> m]

Found(ats, m) == IF m # NoMatch THEN [ats |-> ats, slug |-> m] ELSE Unknown

detect_ats_from_html(html, url) ==
    IF html = <<>> THEN Unknown
    ELSE IF Contains(html, SigAshbyJid) THEN
        LET m == re_search(PatAshby, html)
        IN  IF m # NoMatch THEN [ats |-> "ashby", slug |-> m]
            ELSE [ats |-> "ashby_embedded", slug |-> url]
    ELSE IF Contains(html, SigAshbyJobs) THEN
        Found("ashby", re_search(PatAshbyJobs, html))
    ELSE IF Contains(html, SigGreenhouse) \/ Contains(html, SigGrnh) THEN
        Found("greenhouse",
              OrElse(re_search(PatBoards, html),
                     OrElse(re_search(PatJobBoards, html), re_search(PatEmbed, html))))
    ELSE IF Contains(html, SigLever) THEN
        Found("lever", re_search(PatLever, html))
    ELSE IF Contains(html, SigApplyWork) \/ Contains(html, SigWorkable) THEN
        Found("workable", re_search(PatWorkable, html))
    ELSE IF Contains(html, SigRippling) \/ Contains(html, SigRipplingAts) THEN
        Found("rippling", re_search(PatRippling, html))
    ELSE Unknown

\* a faulty variant of the list: the rippling entry is missing
checks_no_rippling ==
    << [pat |-> PatBoards,    ats |-> "greenhouse"],
       [pat |-> PatJobBoards, ats |-> "greenhouse"],
       [pat |-> PatLever,     ats |-> "lever"],
       [pat |-> PatAshbyJobs, ats |-> "ashby"],
       [pat |-> PatAshby,     ats |-> "ashby"],
       [pat |-> PatWorkable,  ats |-> "workable"] >>

\* a faulty variant of the list: the order of detect_ats_from_html
checks_ashby_first ==
    << [pat |-> PatAshbyJobs, ats |-> "ashby"],
       [pat |-> PatAshby,     ats |-> "ashby"],
       [pat |-> PatBoards,    ats |-> "greenhouse"],
       [pat |-> PatJobBoards, ats |-> "greenhouse"],
       [pat |-> PatLever,     ats |-> "lever"],
       [pat |-> PatWorkable,  ats |-> "workable"],
       [pat |-> PatRippling,  ats |-> "rippling"] >>

\* the (pattern, ats) list of detect_ats_from_url, in its order
checks ==
    << [pat |-> PatBoards,    ats |-> "greenhouse"],
       [pat |-> PatJobBoards, ats |-> "greenhouse"],
       [pat |-> PatLever,     ats |-> "lever"],
       [pat |-> PatAshbyJobs, ats |-> "ashby"],
       [pat |-> PatAshby,     ats |-> "ashby"],
       [pat |-> PatWorkable,  ats |-> "workable"],
       [pat |-> PatRippling,  ats |-> "rippling"] >>

\* the loop of detect_ats_from_url from entry i of the list on
RECURSIVE FirstCheck(_, _, _)
FirstCheck(list, i, url) ==
    IF i > Len(list) THEN Unknown
    ELSE LET m == re_search(list[i].pat, url)
         IN  IF m # NoMatch THEN [ats |-> list[i].ats, slug |-> m]
             ELSE FirstCheck(list, i + 1, url)

detect_ats_from_url(url) ==
    IF url = <<>> THEN Unknown ELSE FirstCheck(checks, 1, url)

-----------------------------------------------------------------------------
(* URL and text helpers *)

\* str.rstrip("/")
RECURSIVE RStrip(_)
RStrip(s) ==
    IF s # <<>> /\ s[Len(s)] = "/" THEN RStrip(SubSeq(s, 1, Len(s) - 1)) ELSE s

\* str.strip() of surrounding blanks
RECURSIVE Strip(_)
Strip(s) ==
    IF s # <<>> /\ s[1] = " " THEN Strip(Tail(s))
    ELSE IF s # <<>> /\ s[Len(s)] = " " THEN Strip(SubSeq(s, 1, Len(s) - 1))
    ELSE s

StartsWith(s, p) == Len(s) >= Len(p) /\ SubSeq(s, 1, Len(p)) = p

\* the tokens of s before the first one that is in stops
RECURSIVE TakeUntil(_, _)
TakeUntil(s, stops) ==
    IF s = <<>> \/ s[1] \in stops THEN <<>>
    ELSE <<s[1]>> \o TakeUntil(Tail(s), stops)

\* scheme and host of an absolute URL: "https://host"
Origin(url) ==
    IF Len(url) >= 2 /\ url[2] = "://"
    THEN SubSeq(url, 1, 2) \o TakeUntil(SubSeq(url, 3, Len(url)), {"/", "?", "#"})
    ELSE <<>>

\* the host a request to url goes to
Host(url) == IF Origin(url) = <<>> THEN <<>> ELSE SubSeq(Origin(url), 3, Len(Origin(url)))

\* what urljoin raises on a malformed href ("Invalid IPv6 URL")
ValueError == <<"ValueError">>

\* urllib.parse.urljoin for the forms of href the pages hold: absolute,
\* root-relative, query-only, fragment-only, and a name relative to a base
\* with no path; a href with an unbalanced bracket raises ValueError
urljoin(base, href) ==
    IF \E i \in DOMAIN href : href[i] = "[" THEN ValueError
    ELSE IF href = <<>> THEN base
    ELSE IF Len(href) >= 2 /\ href[2] = "://" THEN href
    ELSE IF href[1] = "/" THEN Origin(base) \o href
    ELSE IF href[1] = "?" THEN TakeUntil(base, {"?", "#"}) \o href
    ELSE IF href[1] = "#" THEN TakeUntil(base, {"#"}) \o href
    ELSE RStrip(base) \o <<"/">> \o href

\* str.lower() and str.capitalize(), token by token, for the tokens that have
\* an upper-case letter
LowerTok(t) ==
    CASE t = "Faire" -> "faire"
      [] t = "ResQ" -> "resq"
      [] t = "Resq" -> "resq"
      [] t = "Acme" -> "acme"
      [] t = "Careers" -> "careers"
      [] t = "Jobs" -> "jobs"
      [] t = "Join" -> "join"
      [] t = "Engineer" -> "engineer"
      [] t = "Designer" -> "designer"
      [] t = "Senior" -> "senior"
      [] t = "Welcome" -> "welcome"
      [] t = "About" -> "about"
      [] t = "View" -> "view"
      [] t = "QA" -> "qa"
      [] OTHER -> t

CapTok(t) ==
    LET l == LowerTok(t)
    IN  CASE l = "faire" -> "Faire"
          [] l = "resq" -> "Resq"
          [] l = "acme" -> "Acme"
          [] l = "owner" -> "Owner"
          [] l = "rp" -> "Rp"
          [] l = "wk" -> "Wk"
          [] OTHER -> l

Lower(s) == [i \in DOMAIN s |-> LowerTok(s[i])]

Capitalize(s) ==
    IF s = <<>> THEN s ELSE <<CapTok(s[1])>> \o Lower(Tail(s))

\* len() of a text in characters: every token of the model is longer than
\* five characters, but for the blank and the two-letter title "QA"
TokLen(t) == IF t = " " THEN 1 ELSE IF t = "QA" THEN 2 ELSE 6

RECURSIVE CharLen(_)
CharLen(s) == IF s = <<>> THEN 0 ELSE TokLen(s[1]) + CharLen(Tail(s))

-----------------------------------------------------------------------------
(* Constants of the program *)

AllJobsPaths ==
    << <<"/", "careers">>, <<"/", "jobs">>, <<"/", "careers", "/", "jobs">>,
       <<"/", "careers", "/", "openings">>, <<"/", "careers", "/", "open-roles">>,
       <<"/", "careers", "/", "positions">>, <<"/", "careers", "/", "listings">>,
       <<"/", "about", "/", "careers">>, <<"/", "company", "/", "careers">>,
       <<"/", "join">>, <<"/", "join-us">>, <<"/", "open-roles">>,
       <<"/", "work-with-us">>, <<"/", "hiring">>, <<"/", "openings">>,
       <<"/", "career">> >>

\* the paths the model tries: the first MaxPaths of the list
JOBS_PATHS == SubSeq(AllJobsPaths, 1, MaxPaths)

\* the entries of the override table the model keeps, one per ATS kind the
\* table holds; key = company name in lower case
KNOWN_ATS ==
    [ faire |-> [ats |-> "greenhouse", slug |-> <<"Faire">>,
                 url |-> <<"https", "://", "boards", ".", "greenhouse", ".", "io", "/", "faire">>],
      handshake |-> [ats |-> "ashby_embedded", slug |-> NoSlug,
                 url |-> <<"https", "://", "joinhandshake", ".", "com", "/", "careers", "/">>],
      owner |-> [ats |-> "lever", slug |-> <<"owner">>,
                 url |-> <<"https", "://", "jobs", ".", "lever", ".", "co", "/", "owner">>],
      resq |-> [ats |-> "ashby", slug |-> <<"ResQ">>,
                 url |-> <<"https", "://", "jobs", ".", "ashbyhq", ".", "com", "/", "ResQ">>],
      willow |-> [ats |-> "yc", slug |-> <<"willow">>,
                 url |-> <<"https", "://", "www", ".", "ycombinator", ".", "com", "/", "companies", "/", "willow", "/", "jobs">>] ]

\* name.lower() of a company name
LowerName(n) ==
    CASE n = "Faire" -> "faire"
      [] n = "Handshake" -> "handshake"
      [] n = "Owner" -> "owner"
      [] n = "ResQ" -> "resq"
      [] n = "Willow" -> "willow"
      [] n = "Acme" -> "acme"
      [] OTHER -> n

\* len(r.text) > 500
MinBodyLen == 500

\* jobs[:200]
LinkScanCap == 200

\* the careers keywords of check_page that are single words: the lower-case
\* tokens of the model that one of them is a substring of
CareersWords == {"career", "careers", "job", "jobs", "hiring", "opening",
                 "openings", "position", "positions", "job_board"}

\* any(kw in s for kw in CAREERS_KEYWORDS), s in lower case
HasCareersKeyword(s) ==
    \/ \E i \in DOMAIN s : s[i] \in CareersWords
    \/ Contains(s, <<"join", " ", "us">>)
    \/ Contains(s, <<"open", " ", "role">>)
    \/ Contains(s, <<"work", " ", "with", " ", "us">>)

-----------------------------------------------------------------------------
(* Pages: the HTML a fetch returns, as the sequence of its elements *)

\* a JSON field that is missing
Absent == <<"<absent>">>

Get(v, default) == IF v = Absent THEN default ELSE v

\* tag "text": running text; "a": an anchor with href and text; "div": an
\* element with class cls holding one anchor; "ldjson": a script of type
\* application/ld+json holding one item of @type cls, title text and url href
Node(tag, cls, href, text) == [tag |-> tag, cls |-> cls, href |-> href, text |-> text]

PagePlain == << Node("text", <<>>, <<>>, <<"Welcome">>) >>

PageMarker ==
    << Node("a", <<>>, <<"?", "ashby_jid", "=", "uuid">>, <<"Engineer", " ", "View">>) >>

PageGreenhouse ==
    << Node("text", <<>>, <<>>,
            <<"https", "://", "boards", ".", "greenhouse", ".", "io", "/", "acme">>) >>

PageLinks ==
    << Node("a", <<>>, <<"/", "about">>, <<"About">>),
       Node("a", <<>>, <<"#", "jobs">>, <<"Jobs">>),
       Node("a", <<>>, <<"/", "careers">>, <<"Careers">>),
       Node("a", <<>>, <<"https", "://", "app", ".", "ashbyhq", ".", "com", "/", "Acme">>,
            <<"Join", " ", "us">>) >>

PageBad == << Node("a", <<>>, <<"/", "/", "[">>, <<"Jobs">>) >>

PageJobs ==
    << Node("ldjson", <<"JobPosting">>, Absent, <<"Designer">>),
       Node("div", <<"job", "-", "listing">>, <<"/", "jobs", "/", "1">>,
            <<"Senior", " ", "Engineer">>),
       Node("a", <<>>, <<"/", "jobs", "/", "2">>, <<"QA">>) >>

PageListing ==
    << Node("div", <<"hero">>, <<"/", "about">>, <<"About">>),
       Node("div", <<"job", "-", "listing">>, <<"/", "jobs", "/", "1">>,
            <<"Senior", " ", "Engineer">>) >>

PageYc ==
    << Node("a", <<>>, <<"/", "companies", "/", "willow", "/", "jobs", "/", "abc">>,
            <<"Engineer">>) >>

PageBoard ==
    << Node("a", <<>>, <<"/", "ResQ", "/", "uuid">>, <<"Engineer">>) >>

\* the pages the company's own host may serve, and the pages any other host may
SitePages == {PagePlain, PageMarker, PageGreenhouse, PageLinks, PageBad, PageJobs}
BoardPages == {PagePlain, PageMarker, PageBad, PageJobs, PageListing, PageYc, PageBoard}

\* fetch_html returning None
NoHtml == <<>>

\* the text of a page, as the substring tests and searches see it
RECURSIVE Serialize(_)
Serialize(page) ==
    IF page = <<>> THEN <<>>
    ELSE Get(page[1].cls, <<>>) \o <<" ">> \o Get(page[1].href, <<>>) \o <<" ">>
         \o Get(page[1].text, <<>>) \o <<" ">> \o Serialize(Tail(page))

IsAnchor(n) == n.tag \in {"a", "div"}

\* soup.find_all("a", href=True), in document order
Anchors(page) == SelectSeq(page, IsAnchor)

-----------------------------------------------------------------------------
(* Job records *)

make_job(title, department, location, url, name) ==
    [ title |-> Strip(title),
      department |-> Strip(IF department = <<>> THEN <<"General">> ELSE department),
      location |-> Strip(IF location = <<>> THEN <<"Not", " ", "specified">> ELSE location),
      url |-> url,
      company |-> name,
      company_website |-> <<>> ]

\* for j in jobs: j["company_website"] = website
Stamp(jobs, w) == [i \in DOMAIN jobs |-> [jobs[i] EXCEPT !.company_website = w]]

\* the jobs of an API response, before an adapter normalizes them; each field
\* stands for the adapter's own field of that meaning and may be Absent
RawFull ==
    [ title |-> <<"Engineer">>, dept |-> <<"Eng">>, loc |-> <<"NYC">>,
      url |-> <<"https", "://", "ats", ".", "example", "/", "job", "/", "1">>,
      id |-> <<"j1">>, remote |-> FALSE ]

RawBare ==
    [ title |-> Absent, dept |-> Absent, loc |-> Absent, url |-> Absent,
      id |-> Absent, remote |-> FALSE ]

ApiItems == { <<>>, <<RawFull>>, <<RawFull, RawBare>> }

\* an API response: the request raised (or the body is no JSON), or a JSON
\* list of jobs, or a JSON object holding the jobs under the adapter's key
ApiError == [status |-> "error", shape |-> "none", items |-> <<>>]

ApiAnswers ==
    {ApiError} \cup [status : {"ok"}, shape : {"list", "dict"}, items : ApiItems]

-----------------------------------------------------------------------------
(* Normalization of API jobs, adapter by adapter *)

General == <<"General">>

\* Python's `v or d`
OrDefault(v, d) == IF v = Absent \/ v = <<>> THEN d ELSE v

\* scrape_greenhouse: a job with no "departments" gets the default [{}], and
\* [{}][0]["name"] raises KeyError; an empty list gives "General"
greenhouse_ok(items) == \A i \in DOMAIN items : items[i].dept # Absent

greenhouse_job(j, fallback_url, name) ==
    make_job(Get(j.title, <<>>), IF j.dept = <<>> THEN General ELSE j.dept,
             Get(j.loc, <<>>), Get(j.url, fallback_url), name)

lever_job(j, fallback_url, name) ==
    make_job(Get(j.title, <<>>), Get(j.dept, General), Get(j.loc, <<>>),
             Get(j.url, fallback_url), name)

ashby_job(j, fallback_url, name) ==
    make_job(Get(j.title, <<>>), OrDefault(j.dept, General),
             OrDefault(j.loc, IF j.remote THEN <<"Remote">> ELSE <<>>),
             OrDefault(j.url, fallback_url), name)

workable_job(j, slug, name) ==
    make_job(Get(j.title, <<>>), Get(j.dept, General),
             IF j.remote THEN <<"Remote">> ELSE Get(j.loc, <<>>),
             <<"https", "://", "apply", ".", "workable", ".", "com", "/">> \o slug
                 \o <<"/", "j", "/">> \o Get(j.id, <<>>) \o <<"/">>,
             name)

rippling_job(j, slug, fallback_url, name) ==
    make_job(Get(j.title, <<>>), OrDefault(j.dept, General),
             IF j.remote THEN <<"Remote">> ELSE Get(j.loc, <<>>),
             IF Get(j.id, <<>>) # <<>>
             THEN <<"https", "://", "ats", ".", "rippling", ".", "com", "/">> \o slug
                      \o <<"/", "jobs", "/">> \o j.id
             ELSE fallback_url,
             name)

YcUrl(slug) ==
    <<"https", "://", "www", ".", "ycombinator", ".", "com", "/", "companies", "/">>
        \o slug \o <<"/", "jobs">>

yc_job(j, slug, name) ==
    make_job(Get(j.title, <<>>), Get(j.dept, General),
             Get(j.loc, <<"San", " ", "Francisco", ",", " ", "CA">>),
             YcUrl(slug) \o <<"/">> \o Get(j.id, <<>>), name)

\* the URLs of the API calls
GreenhouseApi(slug) ==
    <<"https", "://", "boards-api", ".", "greenhouse", ".", "io", "/", "v1", "/", "boards", "/">>
        \o slug \o <<"/", "jobs">>

LeverApi(slug) ==
    <<"https", "://", "api", ".", "lever", ".", "co", "/", "v0", "/", "postings", "/">> \o slug

AshbyApi(slug) ==
    <<"https", "://", "api", ".", "ashbyhq", ".", "com", "/", "posting-api", "/", "job-board", "/">>
        \o slug

WorkableApi(slug) ==
    <<"https", "://", "apply", ".", "workable", ".", "com", "/", "api", "/", "v3", "/", "accounts", "/">>
        \o slug \o <<"/", "jobs">>

RipplingApi(slug) ==
    <<"https", "://", "ats", ".", "rippling", ".", "com", "/", "api", "/", "v1", "/">>
        \o slug \o <<"/", "jobs">>

RipplingPage(slug) ==
    <<"https", "://", "ats", ".", "rippling", ".", "com", "/">> \o slug \o <<"/", "jobs">>

YcApi(slug) == YcUrl(slug) \o <<".", "json">>

\* [slug, slug.lower(), slug.capitalize()]
AshbyVariants(slug) == <<slug, Lower(slug), Capitalize(slug)>>

-----------------------------------------------------------------------------
(* Extraction from HTML *)

Take(s, n) == IF Len(s) > n THEN SubSeq(s, 1, n) ELSE s

\* the first city name of a text, or ""
CityIn(text, cities) ==
    LET hits == {i \in DOMAIN text : text[i] \in cities}
    IN  IF hits = {} THEN <<>> ELSE <<text[Min(hits)]>>

GenericCities == {"Remote", "Austin", "London", "Chicago", "Seattle", "Boston", "Denver"}

\* the result of an extraction: jobs, or ok = FALSE when urljoin raised
Extracted(jobs) == [ok |-> TRUE, jobs |-> jobs]
ExtractionRaised == [ok |-> FALSE, jobs |-> <<>>]

\* strategy 1 of scrape_generic: schema.org JobPosting items
IsJobPosting(n) == n.tag = "ldjson" /\ n.cls = <<"JobPosting">>

schema_jobs(page, jobs_url, name) ==
    LET items == SelectSeq(page, IsJobPosting)
    IN  [i \in DOMAIN items |->
            make_job(Get(items[i].text, <<>>), General, <<>>,
                     Get(items[i].href, jobs_url), name)]

\* strategy 2: elements whose class matches job|position|role|opening|listing|
\* posting|career|vacancy; the words of the model's class names that do
ClassWords == {"job", "jobs", "position", "role", "opening", "listing", "posting",
               "career", "careers", "vacancy"}

ContainerCap == 150

IsJobContainer(n) ==
    n.tag = "div" /\ \E i \in DOMAIN n.cls : LowerTok(n.cls[i]) \in ClassWords

RECURSIVE class_scan(_, _, _, _, _)
class_scan(nodes, jobs_url, name, seen, acc) ==
    IF nodes = <<>> THEN Extracted(acc)
    ELSE LET title == Strip(nodes[1].text)
         IN  IF title = <<>> \/ CharLen(title) < 3 \/ title \in seen
             THEN class_scan(Tail(nodes), jobs_url, name, seen, acc)
             ELSE IF urljoin(jobs_url, nodes[1].href) = ValueError THEN ExtractionRaised
             ELSE class_scan(Tail(nodes), jobs_url, name, seen \cup {title},
                             Append(acc, make_job(title, General,
                                                  CityIn(nodes[1].text, GenericCities),
                                                  urljoin(jobs_url, nodes[1].href), name)))

\* strategy 3: links whose text holds a job-title keyword
RoleWords == {"engineer", "manager", "designer", "analyst", "director", "specialist",
              "coordinator", "lead", "senior", "junior", "intern", "developer",
              "scientist", "recruiter", "executive", "associate"}

HasRoleWord(title) == \E i \in DOMAIN title : LowerTok(title[i]) \in RoleWords

RECURSIVE link_scan(_, _, _, _, _)
link_scan(nodes, jobs_url, name, seen, acc) ==
    IF nodes = <<>> THEN Extracted(acc)
    ELSE LET title == Strip(nodes[1].text)
         IN  IF ~(5 < CharLen(title) /\ CharLen(title) < 100 /\ HasRoleWord(title))
             THEN link_scan(Tail(nodes), jobs_url, name, seen, acc)
             ELSE IF urljoin(jobs_url, nodes[1].href) = ValueError THEN ExtractionRaised
             ELSE IF urljoin(jobs_url, nodes[1].href) \in seen
             THEN link_scan(Tail(nodes), jobs_url, name, seen, acc)
             ELSE link_scan(Tail(nodes), jobs_url, name,
                            seen \cup {urljoin(jobs_url, nodes[1].href)},
                            Append(acc, make_job(title, General, <<>>,
                                                 urljoin(jobs_url, nodes[1].href), name)))

\* a faulty variant of generic_extract: the strategies add up
generic_extract_all(page, jobs_url, name) ==
    LET s1 == schema_jobs(page, jobs_url, name)
        s2 == class_scan(Take(SelectSeq(page, IsJobContainer), ContainerCap),
                         jobs_url, name, {}, <<>>)
        s3 == link_scan(Anchors(page), jobs_url, name, {}, <<>>)
    IN  IF ~s2.ok THEN s2
        ELSE IF ~s3.ok THEN s3
        ELSE Extracted(Take(s1 \o s2.jobs \o s3.jobs, LinkScanCap))

\* the three strategies of scrape_generic on a fetched page, in their order
generic_extract(page, jobs_url, name) ==
    LET s1 == schema_jobs(page, jobs_url, name)
        s2 == class_scan(Take(SelectSeq(page, IsJobContainer), ContainerCap),
                         jobs_url, name, {}, <<>>)
        s3 == link_scan(Anchors(page), jobs_url, name, {}, <<>>)
    IN  IF s1 # <<>> THEN Extracted(s1)
        ELSE IF ~s2.ok \/ s2.jobs # <<>> THEN s2
        ELSE IF ~s3.ok THEN s3
        ELSE Extracted(Take(s3.jobs, LinkScanCap))

\* scrape_ashby_embedded, pattern 1: links carrying ?ashby_jid=
EmbeddedCities == GenericCities \cup {"remote", "NYC", "SF", "Portland", "Atlanta",
                                       "Miami", "Washington", "Toronto", "Berlin", "Paris"}

\* re.sub(r'\s*View\s*$', '', text).strip()
DropView(text) ==
    LET t == Strip(text)
    IN  IF t # <<>> /\ t[Len(t)] = "View" THEN Strip(SubSeq(t, 1, Len(t) - 1)) ELSE t

\* the tokens that stand for a 36-character job id
UuidToks == {"uuid"}

\* re.search(r'ashby_jid=([0-9a-f-]{36})', href)
JidOf(href) ==
    LET hits == {i \in 1..(Len(href) - 2) :
                    href[i] = "ashby_jid" /\ href[i + 1] = "=" /\ href[i + 2] \in UuidToks}
    IN  IF hits = {} THEN NoMatch ELSE <<href[Min(hits) + 2]>>

AshbyJobUrl(jid) ==
    <<"https", "://", "app", ".", "ashbyhq", ".", "com", "/", "jobs", "/">> \o jid

JidLink(jobs_url, href) ==
    IF JidOf(href) # NoMatch THEN AshbyJobUrl(JidOf(href)) ELSE urljoin(jobs_url, href)

RECURSIVE jid_scan(_, _, _, _, _)
jid_scan(nodes, jobs_url, name, seen, acc) ==
    IF nodes = <<>> THEN Extracted(acc)
    ELSE LET title == DropView(nodes[1].text)
         IN  IF \/ ~Contains(nodes[1].href, SigAshbyJid)
                \/ title = <<>> \/ title \in seen \/ CharLen(title) < 3
             THEN jid_scan(Tail(nodes), jobs_url, name, seen, acc)
             ELSE IF JidLink(jobs_url, nodes[1].href) = ValueError THEN ExtractionRaised
             ELSE jid_scan(Tail(nodes), jobs_url, name, seen \cup {title},
                           Append(acc, make_job(title, General,
                                                CityIn(nodes[1].text, EmbeddedCities),
                                                JidLink(jobs_url, nodes[1].href), name)))

\* re.search(r'ashbyhq\.com/([^/]+)', jobs_url)
BoardSlug(jobs_url) ==
    LET hits == {i \in 1..(Len(jobs_url) - Len(PatAshby)) :
                    /\ SubSeq(jobs_url, i, i + Len(PatAshby) - 1) = PatAshby
                    /\ jobs_url[i + Len(PatAshby)] # "/"}
    IN  IF hits = {} THEN NoMatch
        ELSE TakeUntil(SubSeq(jobs_url, Min(hits) + Len(PatAshby), Len(jobs_url)), {"/"})

\* re.search(r'/[0-9a-f-]{36}', full)
HasUuidSegment(full) ==
    \E i \in 1..(Len(full) - 1) : full[i] = "/" /\ full[i + 1] \in UuidToks

\* pattern 2: links of the form /Slug/<job id> of a hosted board
RECURSIVE board_scan(_, _, _, _, _)
board_scan(nodes, jobs_url, name, seen, acc) ==
    IF nodes = <<>> THEN Extracted(acc)
    ELSE LET full == urljoin(jobs_url, nodes[1].href)
             slug == BoardSlug(jobs_url)
             title == Strip(nodes[1].text)
         IN  IF full = ValueError THEN ExtractionRaised
             ELSE IF \/ (slug # NoMatch /\ ~Contains(full, <<"/">> \o slug \o <<"/">>))
                     \/ ~HasUuidSegment(full)
                     \/ title = <<>> \/ title \in seen \/ CharLen(title) < 3
             THEN board_scan(Tail(nodes), jobs_url, name, seen, acc)
             ELSE board_scan(Tail(nodes), jobs_url, name, seen \cup {title},
                             Append(acc, make_job(title, General,
                                                  CityIn(nodes[1].text, EmbeddedCities),
                                                  full, name)))

embedded_extract(page, jobs_url, name) ==
    LET p1 == jid_scan(Anchors(page), jobs_url, name, {}, <<>>)
    IN  IF ~p1.ok \/ p1.jobs # <<>> THEN p1
        ELSE board_scan(Anchors(page), jobs_url, name, {}, <<>>)

\* the HTML fallback of scrape_yc: links to /companies/<slug>/jobs/...; its
\* try/except turns any exception into []
YcCities == {"Remote", "Austin", "Seattle", "Boston"}

RECURSIVE yc_scan(_, _, _, _, _)
yc_scan(nodes, slug, name, seen, acc) ==
    IF nodes = <<>> THEN acc
    ELSE LET title == Strip(nodes[1].text)
         IN  IF \/ ~Contains(nodes[1].href,
                             <<"/", "companies", "/">> \o slug \o <<"/", "jobs", "/">>)
                \/ title = <<>> \/ title \in seen
             THEN yc_scan(Tail(nodes), slug, name, seen, acc)
             ELSE yc_scan(Tail(nodes), slug, name, seen \cup {title},
                          Append(acc, make_job(title, General,
                                     IF CityIn(nodes[1].text, YcCities) # <<>>
                                     THEN CityIn(nodes[1].text, YcCities)
                                     ELSE <<"San", " ", "Francisco", ",", " ", "CA">>,
                                     <<"https", "://", "www", ".", "ycombinator", ".", "com">>
                                         \o nodes[1].href, name)))

-----------------------------------------------------------------------------
(* The network *)

\* a request to the company's own host fails when that host is unreachable
Down(url) == siteDown /\ Host(url) # <<>> /\ Host(url) = Host(company.website)

\* what fetch_html may return for a URL: None, or a page
OnSite(url) == Host(url) # <<>> /\ Host(url) = Host(company.website)

FetchAnswers(url) ==
    IF Down(url) THEN {NoHtml}
    ELSE IF OnSite(url) THEN {NoHtml} \cup SitePages
    ELSE {NoHtml} \cup BoardPages

ApiAnswersFor(url) == IF Down(url) THEN {ApiError} ELSE ApiAnswers

\* where a conventional path may redirect to: the hosted board of an ATS
RedirectTargets ==
    { <<"https", "://", "boards", ".", "greenhouse", ".", "io", "/", "acme">>,
      <<"https", "://", "jobs", ".", "lever", ".", "co", "/", "owner">>,
      <<"https", "://", "jobs", ".", "ashbyhq", ".", "com", "/", "Acme">>,
      <<"https", "://", "apply", ".", "workable", ".", "com", "/", "wk">>,
      <<"https", "://", "ats", ".", "rippling", ".", "com", "/", "rp", "/", "jobs">> }

\* what requests.get may do on a conventional path: raise, or answer with a
\* status, a body of some length, and the URL reached after redirects
PathRaised == [kind |-> "exception", status |-> 0, len |-> 0, url |-> <<>>, page |-> NoHtml]

PathAnswers(url) ==
    IF Down(url) THEN {PathRaised}
    ELSE {PathRaised,
          [kind |-> "response", status |-> 404, len |-> MinBodyLen + 1, url |-> url,
           page |-> PagePlain],
          [kind |-> "response", status |-> 200, len |-> MinBodyLen, url |-> url,
           page |-> PagePlain]}
         \cup [kind : {"response"}, status : {200}, len : {MinBodyLen + 1}, url : {url},
               page : SitePages]
         \cup [kind : {"response"}, status : {200}, len : {MinBodyLen + 1},
               url : RedirectTargets, page : {PagePlain}]

-----------------------------------------------------------------------------
(* scrape_company: the running call *)

NoReason == "None"

NotFound == [url |-> <<>>, ats |-> NoAts, slug |-> NoSlug]

\* no conventional path requested yet
NoPathResponse ==
    [kind |-> "none", status |-> 0, len |-> 0, url |-> <<>>, page |-> NoHtml]

\* no API request made yet
NoResponse == [status |-> "none", shape |-> "none", items |-> <<>>]

\* the call at its entry
Frame0 ==
    [ pc |-> "scrape_company",
      stage |-> "override",       \* which call of an adapter is running: line 610 or 623/629
      slug |-> NoSlug,            \* the adapter's slug argument
      jobs_url |-> <<>>,          \* the adapter's URL argument
      variant |-> 1,              \* scrape_ashby: index of try_slug
      link_page |-> <<>>,         \* check_page: url
      link_from |-> "home",       \* check_page: called for the homepage or for a path
      links |-> <<>>,             \* check_page: the anchors not yet looked at
      sub_url |-> <<>>,           \* check_page: full_url being fetched
      pathIdx |-> 1,              \* find_jobs_page: index of path
      override_ran |-> FALSE,     \* line 610 returned
      override_jobs |-> <<>>,     \* jobs of line 610
      located |-> FALSE,          \* line 620 returned
      found |-> NotFound,         \* jobs_url, ats, slug of line 620
      ret_jobs |-> <<>>,          \* the returned pair
      ret_reason |-> NoReason,
      error |-> "",               \* the exception raised out of scrape_company
      resp |-> NoResponse,        \* the response, if the last request was an API request
      page |-> NoHtml,            \* the HTML, if the last request was the fetch of the
                                  \* homepage or the fetch of scrape_generic
      path_resp |-> NoPathResponse, \* the response, if the last request was for a
                                  \* conventional path
      accepted |-> 0,             \* index of the first path whose response had status
                                  \* 200 and a body longer than 500; 0 if none had
      calls |-> <<>>,             \* the network calls made, in order
      adapters |-> <<>> ]         \* the adapter functions entered, in order

Idle == [Frame0 EXCEPT !.pc = "idle"]

website == RStrip(company.website)

Finish(f, jobs, reason) ==
    [f EXCEPT !.pc = "done", !.ret_jobs = jobs, !.ret_reason = reason]

Raise(f, e) == [f EXCEPT !.pc = "raised", !.error = e]

Net(f, by, op, url) ==
    [f EXCEPT !.calls = Append(@, [by |-> by, op |-> op, url |-> url]),
              !.resp = NoResponse, !.page = NoHtml, !.path_resp = NoPathResponse]

\* r.status_code == 200 and len(r.text) > 500
Accepted(r) == r.kind = "response" /\ r.status = 200 /\ r.len > MinBodyLen

\* r = requests.get(base + path): request made, r received or an exception
PathGet(f, url, r) ==
    [Net(f, "find_jobs_page", "GET", url) EXCEPT
        !.path_resp = r,
        !.accepted = IF @ = 0 /\ Accepted(r) THEN f.pathIdx ELSE @]

\* html = fetch_html(url): request made, html received
Fetch(f, by, op, url, html) == [Net(f, by, op, url) EXCEPT !.page = html]

\* r = requests.get(api) / requests.post(api): request made, response r received
Api(f, by, op, url, r) == [Net(f, by, op, url) EXCEPT !.resp = r]

\* a faulty variant of auto_detect: the website is not checked
auto_detect_unchecked(f) == [f EXCEPT !.stage = "auto", !.pc = "find_jobs_page"]

\* lines 617-620, up to the call of find_jobs_page
auto_detect(f) ==
    IF website = <<>> THEN Finish(f, <<>>, "no website")
    ELSE [f EXCEPT !.stage = "auto", !.pc = "find_jobs_page"]

\* a faulty variant of after_override: auto-detection runs whatever the
\* override produced
after_override_always_auto(f, jobs) == auto_detect(f)

\* a faulty variant of after_override: the override's result is final
after_override_final(f, jobs) == Finish(f, Stamp(jobs, website), NoReason)

\* lines 611-614: what follows the adapter of the override
after_override(f, jobs) ==
    IF jobs # <<>> THEN Finish(f, Stamp(jobs, website), NoReason)
    ELSE auto_detect(f)

\* a faulty variant of after_auto: the records are returned as the adapter
\* made them
after_auto_unstamped(f, jobs) == Finish(f, jobs, NoReason)

\* lines 624-625 and 630-631: what follows the adapter of auto-detection
after_auto(f, jobs) == Finish(f, Stamp(jobs, website), NoReason)

\* an adapter returns jobs to scrape_company
adapter_returns(f, jobs) ==
    IF f.stage = "override"
    THEN after_override([f EXCEPT !.override_ran = TRUE, !.override_jobs = jobs], jobs)
    ELSE after_auto(f, jobs)

\* a call of adapter fn by caller; the adapter's first request is pending
Enter(f, fn, caller) ==
    [f EXCEPT !.pc = fn,
              !.adapters = Append(@, [stage |-> f.stage, fn |-> fn, by |-> caller])]

\* scrape_generic(jobs_url, company), lines 520-523
call_generic(f, url, caller) ==
    IF url = <<>> THEN adapter_returns(Enter(f, "scrape_generic", caller), <<>>)
    ELSE [Enter(f, "scrape_generic", caller) EXCEPT !.jobs_url = url]

\* scrape_ashby_embedded(jobs_url, company), lines 308-309
call_embedded(f, url, caller) ==
    [Enter(f, "scrape_ashby_embedded", caller) EXCEPT !.jobs_url = url]

route_to_scraper(f, ats, slug, jobs_url) ==
    LET g == [f EXCEPT !.slug = slug, !.jobs_url = jobs_url, !.variant = 1]
    IN  IF ats = "greenhouse" /\ slug # NoSlug THEN Enter(g, "scrape_greenhouse", "route_to_scraper")
        ELSE IF ats = "lever" /\ slug # NoSlug THEN Enter(g, "scrape_lever", "route_to_scraper")
        ELSE IF ats = "ashby" /\ slug # NoSlug THEN Enter(g, "scrape_ashby", "route_to_scraper")
        ELSE IF ats \in {"ashby_embedded", "ashby"} /\ slug = NoSlug
             THEN call_embedded(g, jobs_url, "route_to_scraper")
        ELSE IF ats = "workable" /\ slug # NoSlug THEN Enter(g, "scrape_workable", "route_to_scraper")
        ELSE IF ats = "yc" /\ slug # NoSlug THEN Enter(g, "scrape_yc", "route_to_scraper")
        ELSE IF ats = "rippling" /\ slug # NoSlug THEN Enter(g, "scrape_rippling", "route_to_scraper")
        ELSE call_generic(g, jobs_url, "route_to_scraper")

\* a faulty variant of locator_returns: no reason is given when no page is found
locator_returns_silent(f, url, ats, slug) ==
    LET g == [f EXCEPT !.located = TRUE,
                       !.found = [url |-> url, ats |-> ats, slug |-> slug]]
    IN  IF url # <<>> /\ ats # NoAts THEN route_to_scraper(g, ats, slug, url)
        ELSE IF url # <<>> THEN call_generic(g, url, "scrape_company")
        ELSE Finish(g, <<>>, NoReason)

\* lines 620-633: find_jobs_page returned (url, ats, slug)
locator_returns(f, url, ats, slug) ==
    LET g == [f EXCEPT !.located = TRUE,
                       !.found = [url |-> url, ats |-> ats, slug |-> slug]]
    IN  IF url # <<>> /\ ats # NoAts THEN route_to_scraper(g, ats, slug, url)
        ELSE IF url # <<>> THEN call_generic(g, url, "scrape_company")
        ELSE Finish(g, <<>>, "no jobs page found")

\* lines 234-238: on to the next conventional path, or the list is exhausted
next_path(f) ==
    IF f.pathIdx < Len(JOBS_PATHS) THEN [f EXCEPT !.pc = "try_path", !.pathIdx = @ + 1]
    ELSE locator_returns(f, <<>>, NoAts, NoSlug)

\* an exception inside check_page: the call for a conventional path is inside
\* the try of lines 222-235, the call for the homepage is not
check_page_raised(f, e) ==
    IF f.link_from = "path" THEN next_path(f) ELSE Raise(f, e)

\* check_page found no ATS: line 210, then line 219 or line 233
check_page_none(f) ==
    IF f.link_from = "path" THEN locator_returns(f, f.link_page, NoAts, NoSlug)
    ELSE [f EXCEPT !.pc = "try_path", !.pathIdx = 1]

\* the anchor passes the keyword filter of line 195
IsCareersLink(a) ==
    HasCareersKeyword(Lower(a.href)) \/ HasCareersKeyword(Lower(Strip(a.text)))

\* lines 191-210: the loop over the anchors, up to its next fetch
RECURSIVE check_links(_, _)
check_links(f, links) ==
    IF links = <<>> THEN check_page_none(f)
    ELSE IF ~IsCareersLink(links[1]) THEN check_links(f, Tail(links))
    ELSE LET full_url == urljoin(f.link_page, links[1].href)
         IN  IF full_url = ValueError THEN check_page_raised(f, "ValueError")
             ELSE IF RStrip(full_url) = RStrip(f.link_page) \/ StartsWith(links[1].href, <<"#">>)
             THEN check_links(f, Tail(links))
             ELSE IF detect_ats_from_url(full_url).ats # NoAts
             THEN locator_returns(f, full_url, detect_ats_from_url(full_url).ats,
                                  detect_ats_from_url(full_url).slug)
             ELSE [f EXCEPT !.pc = "fetch_sub", !.sub_url = full_url, !.links = Tail(links)]

\* a faulty variant of check_page: the links are followed before the page
\* itself counts
check_page_links_first(f, url, html, from) ==
    check_links([f EXCEPT !.link_page = url, !.link_from = from], Anchors(html))

\* lines 183-210: check_page(url, html), called for the homepage or a path
check_page(f, url, html, from) ==
    LET d == detect_ats_from_html(Serialize(html), url)
    IN  IF d.ats # NoAts THEN locator_returns(f, url, d.ats, d.slug)
        ELSE check_links([f EXCEPT !.link_page = url, !.link_from = from], Anchors(html))

-----------------------------------------------------------------------------
(* The steps of scrape_company: one per network request, each with the code
   that runs from that request to the next one *)

rest == <<company, siteDown, fixture, page_url, html_result, url_result,
          file, companies, idx, all_jobs, failed, logged, output, mpc>>

\* lines 601-614: entry, override lookup and dispatch
scrape_company ==
    /\ sc.pc = "scrape_company"
    /\ sc' = IF LowerName(company.name) \in DOMAIN KNOWN_ATS
             THEN LET o == KNOWN_ATS[LowerName(company.name)]
                  IN  route_to_scraper(sc, o.ats, o.slug, o.url)
             ELSE auto_detect(sc)
    /\ UNCHANGED rest

\* lines 176-217: the homepage stage
find_jobs_page ==
    /\ sc.pc = "find_jobs_page"
    /\ \E html \in FetchAnswers(website) :
          sc' = LET f == Fetch(sc, "find_jobs_page", "fetch_html", website, html)
                IN  IF html # NoHtml THEN check_page(f, website, html, "home")
                    ELSE [f EXCEPT !.pc = "try_path", !.pathIdx = 1]
    /\ UNCHANGED rest

\* a faulty variant of fetch_sub: the links of a fetched sub-page are followed
\* in their turn
fetch_sub_recursive ==
    /\ sc.pc = "fetch_sub"
    /\ \E sub_html \in FetchAnswers(sc.sub_url) :
          sc' = LET f == Net(sc, "check_page", "fetch_html", sc.sub_url)
                    d == detect_ats_from_html(Serialize(sub_html), sc.sub_url)
                IN  IF sub_html # NoHtml /\ d.ats # NoAts
                    THEN locator_returns(f, sc.sub_url, d.ats, d.slug)
                    ELSE IF sub_html # NoHtml
                    THEN check_links([f EXCEPT !.link_page = f.sub_url], Anchors(sub_html))
                    ELSE check_links(f, f.links)
    /\ UNCHANGED rest

\* lines 205-209: the fetch of a linked page
fetch_sub ==
    /\ sc.pc = "fetch_sub"
    /\ \E sub_html \in FetchAnswers(sc.sub_url) :
          sc' = LET f == Net(sc, "check_page", "fetch_html", sc.sub_url)
                    d == detect_ats_from_html(Serialize(sub_html), sc.sub_url)
                IN  IF sub_html # NoHtml /\ d.ats # NoAts
                    THEN locator_returns(f, sc.sub_url, d.ats, d.slug)
                    ELSE check_links(f, f.links)
    /\ UNCHANGED rest

\* lines 220-236: one conventional path
try_path ==
    /\ sc.pc = "try_path"
    /\ \E r \in PathAnswers(website \o JOBS_PATHS[sc.pathIdx]) :
          sc' = LET f == PathGet(sc, website \o JOBS_PATHS[sc.pathIdx], r)
                    d == detect_ats_from_url(r.url)
                IN  IF r.kind = "exception" \/ r.status # 200 \/ ~(r.len > MinBodyLen)
                    THEN next_path(f)
                    ELSE IF d.ats # NoAts THEN locator_returns(f, r.url, d.ats, d.slug)
                    ELSE check_page(f, r.url, r.page, "path")
    /\ UNCHANGED rest

\* lines 243-258
scrape_greenhouse ==
    /\ sc.pc = "scrape_greenhouse"
    /\ \E r \in ApiAnswersFor(GreenhouseApi(sc.slug)) :
          sc' = LET f == Api(sc, "scrape_greenhouse", "GET", GreenhouseApi(sc.slug), r)
                IN  IF r.status = "error" \/ r.shape # "dict" \/ ~greenhouse_ok(r.items)
                    THEN call_generic(f, f.jobs_url, "scrape_greenhouse")
                    ELSE adapter_returns(f, [i \in DOMAIN r.items |->
                             greenhouse_job(r.items[i], f.jobs_url, company.name)])
    /\ UNCHANGED rest

\* lines 261-280
scrape_lever ==
    /\ sc.pc = "scrape_lever"
    /\ \E r \in ApiAnswersFor(LeverApi(sc.slug)) :
          sc' = LET f == Api(sc, "scrape_lever", "GET", LeverApi(sc.slug), r)
                IN  IF r.status = "error" \/ r.shape # "list"
                    THEN call_generic(f, f.jobs_url, "scrape_lever")
                    ELSE adapter_returns(f, [i \in DOMAIN r.items |->
                             lever_job(r.items[i], f.jobs_url, company.name)])
    /\ UNCHANGED rest

\* a faulty variant of scrape_ashby: the embedded extraction is called as soon
\* as one slug variant gives no job
scrape_ashby_one_variant ==
    /\ sc.pc = "scrape_ashby"
    /\ \E r \in ApiAnswersFor(AshbyApi(AshbyVariants(sc.slug)[sc.variant])) :
          sc' = LET f == Api(sc, "scrape_ashby", "GET",
                             AshbyApi(AshbyVariants(sc.slug)[sc.variant]), r)
                IN  IF r.status = "ok" /\ r.shape = "dict" /\ r.items # <<>>
                    THEN adapter_returns(f, [i \in DOMAIN r.items |->
                             ashby_job(r.items[i], f.jobs_url, company.name)])
                    ELSE call_embedded(f, f.jobs_url, "scrape_ashby")
    /\ UNCHANGED rest

\* lines 283-305: one slug variant
scrape_ashby ==
    /\ sc.pc = "scrape_ashby"
    /\ \E r \in ApiAnswersFor(AshbyApi(AshbyVariants(sc.slug)[sc.variant])) :
          sc' = LET f == Api(sc, "scrape_ashby", "GET",
                             AshbyApi(AshbyVariants(sc.slug)[sc.variant]), r)
                IN  IF r.status = "ok" /\ r.shape = "dict" /\ r.items # <<>>
                    THEN adapter_returns(f, [i \in DOMAIN r.items |->
                             ashby_job(r.items[i], f.jobs_url, company.name)])
                    ELSE IF f.variant < Len(AshbyVariants(f.slug))
                    THEN [f EXCEPT !.variant = @ + 1]
                    ELSE call_embedded(f, f.jobs_url, "scrape_ashby")
    /\ UNCHANGED rest

\* lines 308-361
scrape_ashby_embedded ==
    /\ sc.pc = "scrape_ashby_embedded"
    /\ \E html \in FetchAnswers(sc.jobs_url) :
          sc' = LET f == Net(sc, "scrape_ashby_embedded", "fetch_html_render", sc.jobs_url)
                    x == embedded_extract(html, f.jobs_url, company.name)
                IN  IF html = NoHtml THEN adapter_returns(f, <<>>)
                    ELSE IF ~x.ok THEN Raise(f, "ValueError")
                    ELSE adapter_returns(f, x.jobs)
    /\ UNCHANGED rest

\* lines 364-382
scrape_workable ==
    /\ sc.pc = "scrape_workable"
    /\ \E r \in ApiAnswersFor(WorkableApi(sc.slug)) :
          sc' = LET f == Api(sc, "scrape_workable", "POST", WorkableApi(sc.slug), r)
                IN  IF r.status = "error" \/ r.shape # "dict"
                    THEN call_generic(f, f.jobs_url, "scrape_workable")
                    ELSE adapter_returns(f, [i \in DOMAIN r.items |->
                             workable_job(r.items[i], f.slug, company.name)])
    /\ UNCHANGED rest

\* a faulty variant of scrape_rippling: an empty answer of the API is returned
\* as it is
scrape_rippling_direct ==
    /\ sc.pc = "scrape_rippling"
    /\ \E r \in ApiAnswersFor(RipplingApi(sc.slug)) :
          sc' = LET f == Api(sc, "scrape_rippling", "GET", RipplingApi(sc.slug), r)
                IN  IF r.status = "ok"
                    THEN adapter_returns(f, [i \in DOMAIN r.items |->
                             rippling_job(r.items[i], f.slug, f.jobs_url, company.name)])
                    ELSE call_generic(f, IF f.jobs_url # <<>> THEN f.jobs_url
                                         ELSE RipplingPage(f.slug), "scrape_rippling")
    /\ UNCHANGED rest

\* lines 385-414
scrape_rippling ==
    /\ sc.pc = "scrape_rippling"
    /\ \E r \in ApiAnswersFor(RipplingApi(sc.slug)) :
          sc' = LET f == Api(sc, "scrape_rippling", "GET", RipplingApi(sc.slug), r)
                IN  IF r.status = "ok" /\ r.items # <<>>
                    THEN adapter_returns(f, [i \in DOMAIN r.items |->
                             rippling_job(r.items[i], f.slug, f.jobs_url, company.name)])
                    ELSE call_generic(f, IF f.jobs_url # <<>> THEN f.jobs_url
                                         ELSE RipplingPage(f.slug), "scrape_rippling")
    /\ UNCHANGED rest

\* lines 418-433: the API call of scrape_yc
scrape_yc ==
    /\ sc.pc = "scrape_yc"
    /\ \E r \in ApiAnswersFor(YcApi(sc.slug)) :
          sc' = LET f == Api(sc, "scrape_yc", "GET", YcApi(sc.slug), r)
                IN  IF r.status = "ok" /\ r.shape = "list" /\ r.items # <<>>
                    THEN adapter_returns(f, [i \in DOMAIN r.items |->
                             yc_job(r.items[i], f.slug, company.name)])
                    ELSE [f EXCEPT !.pc = "scrape_yc_html"]
    /\ UNCHANGED rest

\* lines 435-460: the HTML fallback of scrape_yc
scrape_yc_html ==
    /\ sc.pc = "scrape_yc_html"
    /\ \E html \in FetchAnswers(sc.jobs_url) :
          sc' = LET f == Net(sc, "scrape_yc", "fetch_html", sc.jobs_url)
                IN  IF html = NoHtml THEN adapter_returns(f, <<>>)
                    ELSE adapter_returns(f, yc_scan(Anchors(html), f.slug, company.name,
                                                    {}, <<>>))
    /\ UNCHANGED rest

\* lines 520-577
scrape_generic ==
    /\ sc.pc = "scrape_generic"
    /\ \E html \in FetchAnswers(sc.jobs_url) :
          sc' = LET f == Fetch(sc, "scrape_generic", "fetch_html_render", sc.jobs_url, html)
                    x == generic_extract(html, f.jobs_url, company.name)
                IN  IF html = NoHtml THEN adapter_returns(f, <<>>)
                    ELSE IF Contains(Serialize(html), SigAshbyJid)
                    THEN call_embedded(f, f.jobs_url, "scrape_generic")
                    ELSE IF ~x.ok THEN Raise(f, "ValueError")
                    ELSE adapter_returns(f, x.jobs)
    /\ UNCHANGED rest

ScrapeStep ==
    \/ scrape_company
    \/ find_jobs_page
    \/ fetch_sub
    \/ try_path
    \/ scrape_greenhouse
    \/ scrape_lever
    \/ scrape_ashby
    \/ scrape_ashby_embedded
    \/ scrape_workable
    \/ scrape_rippling
    \/ scrape_yc
    \/ scrape_yc_html
    \/ scrape_generic

-----------------------------------------------------------------------------
(* Inputs of scrape_company *)

Site == <<"https", "://", "acme", ".", "example">>

\* a website of "" stands for a record with no website as well: the code reads
\* company.get("website", "")
Websites == { <<>>, <<"/">>, Site \o <<"/">> }

Names == {"Faire", "Handshake", "Owner", "ResQ", "Willow", "Acme"}

Companies == [name : Names, website : Websites, note : {FALSE}]

NoCompany == [name |-> "", website |-> <<>>, note |-> FALSE]

NoFile == [found |-> FALSE, records |-> <<>>]

NoOutput == [written |-> FALSE, total_jobs |-> 0, total_companies |-> 0,
             failed_companies |-> <<>>, jobs |-> <<>>]

MainIdle ==
    /\ file = NoFile
    /\ companies = <<>>
    /\ idx = 0
    /\ all_jobs = <<>>
    /\ failed = <<>>
    /\ logged = <<>>
    /\ output = NoOutput
    /\ mpc = "none"

ClassifyIdle ==
    /\ fixture = <<>>
    /\ page_url = <<>>
    /\ html_result = [ats |-> "NotRun", slug |-> NoSlug]
    /\ url_result = [ats |-> "NotRun", slug |-> NoSlug]

\* scrape_company called on one company record
Init ==
    /\ company \in Companies
    /\ siteDown \in BOOLEAN
    /\ sc = Frame0
    /\ MainIdle
    /\ ClassifyIdle

Next == ScrapeStep

Spec == Init /\ [][Next]_vars

\* every request returns or raises (timeout=REQUEST_TIMEOUT, page.goto timeout), and the
\* code between two requests has no unbounded loop: a step that can be taken
\* is taken
SpecFair == Spec /\ WF_vars(Next)

-----------------------------------------------------------------------------
(* main: the run over companies.json *)

\* line 645: the records kept
Kept(c) == c.website # <<>> /\ ~c.note

\* lines 643-651
main_load ==
    /\ mpc = "load"
    /\ IF file.found
       THEN /\ companies' = SelectSeq(file.records, Kept)
            /\ idx' = 1
            /\ mpc' = "loop"
       ELSE /\ mpc' = "aborted"
            /\ UNCHANGED <<companies, idx>>
    /\ UNCHANGED <<file, all_jobs, failed, logged, output, company, siteDown, sc>>
    /\ UNCHANGED cvars

\* lines 653-656: the head of an iteration, up to the call of scrape_company
main_iterate ==
    /\ mpc = "loop"
    /\ idx <= Len(companies)
    /\ logged' = Append(logged, companies[idx].name)
    /\ company' = companies[idx]
    /\ sc' = Frame0
    /\ mpc' = "scraping"
    /\ UNCHANGED <<file, companies, idx, all_jobs, failed, output, siteDown>>
    /\ UNCHANGED cvars

\* lines 656-659 and 663: scrape_company returned
main_returned ==
    /\ mpc = "scraping"
    /\ sc.pc = "done"
    /\ all_jobs' = all_jobs \o sc.ret_jobs
    /\ failed' = IF sc.ret_reason # NoReason
                 THEN Append(failed, [name |-> company.name, reason |-> sc.ret_reason])
                 ELSE failed
    /\ idx' = idx + 1
    /\ sc' = Idle
    /\ mpc' = "loop"
    /\ UNCHANGED <<file, companies, logged, output, company, siteDown>>
    /\ UNCHANGED cvars

\* a faulty variant of main_except: the exception ends the run
main_except_halts ==
    /\ mpc = "scraping"
    /\ sc.pc = "raised"
    /\ mpc' = "aborted"
    /\ sc' = Idle
    /\ UNCHANGED <<file, companies, idx, all_jobs, failed, logged, output, company, siteDown>>
    /\ UNCHANGED cvars

\* lines 660-663: scrape_company raised
main_except ==
    /\ mpc = "scraping"
    /\ sc.pc = "raised"
    /\ failed' = Append(failed, [name |-> company.name, reason |-> sc.error])
    /\ idx' = idx + 1
    /\ sc' = Idle
    /\ mpc' = "loop"
    /\ UNCHANGED <<file, companies, all_jobs, logged, output, company, siteDown>>
    /\ UNCHANGED cvars

\* lines 665-675: the report
main_write ==
    /\ mpc = "loop"
    /\ idx > Len(companies)
    /\ output' = [written |-> TRUE, total_jobs |-> Len(all_jobs),
                  total_companies |-> Len(companies),
                  failed_companies |-> failed, jobs |-> all_jobs]
    /\ mpc' = "done"
    /\ UNCHANGED <<file, companies, idx, all_jobs, failed, logged, company, siteDown, sc>>
    /\ UNCHANGED cvars

\* a scrape_company step of the company at hand
main_scrape ==
    /\ mpc = "scraping"
    /\ ScrapeStep

\* the records companies.json may hold
FileRecords ==
    { [name |-> "Faire", website |-> Site \o <<"/">>, note |-> FALSE],
      [name |-> "Acme", website |-> Site \o <<"/">>, note |-> FALSE],
      [name |-> "Willow", website |-> <<"/">>, note |-> FALSE],
      [name |-> "Acme", website |-> <<>>, note |-> FALSE],
      [name |-> "Owner", website |-> Site, note |-> TRUE] }

Files ==
    {NoFile} \cup
    [found : {TRUE}, records : UNION {[1..n -> FileRecords] : n \in 0..MaxCompanies}]

InitMain ==
    /\ file \in Files
    /\ companies = <<>>
    /\ idx = 0
    /\ all_jobs = <<>>
    /\ failed = <<>>
    /\ logged = <<>>
    /\ output = NoOutput
    /\ mpc = "load"
    /\ company = NoCompany
    /\ siteDown \in BOOLEAN
    /\ sc = Idle
    /\ ClassifyIdle

NextMain ==
    \/ main_load
    \/ main_iterate
    \/ main_scrape
    \/ main_returned
    \/ main_except
    \/ main_write

SpecMain == InitMain /\ [][NextMain]_vars

-----------------------------------------------------------------------------
(* Synthetic classifier inputs *)

\* form: "hosted" is the kind's canonical hosted URL with a slug, "sig" a
\* signature substring with no slug after it, "marker" the embedded-widget
\* marker, "other" a further slug-bearing form, "none" text of no ATS
Parts ==
    { [kind |-> "ashby_embedded", form |-> "marker", slug |-> NoSlug,
       toks |-> <<"?", "ashby_jid", "=", "uuid">>],
      [kind |-> "ashby", form |-> "hosted", slug |-> <<"Acme">>,
       toks |-> <<"https", "://", "jobs", ".", "ashbyhq", ".", "com", "/", "Acme">>],
      [kind |-> "ashby", form |-> "sig", slug |-> NoSlug,
       toks |-> <<"jobs", ".", "ashbyhq", ".", "com">>],
      [kind |-> "ashby", form |-> "other", slug |-> <<"Acme">>,
       toks |-> <<"app", ".", "ashbyhq", ".", "com", "/", "Acme">>],
      [kind |-> "greenhouse", form |-> "hosted", slug |-> <<"acme">>,
       toks |-> <<"https", "://", "boards", ".", "greenhouse", ".", "io", "/", "acme">>],
      [kind |-> "greenhouse", form |-> "hosted", slug |-> <<"ada18">>,
       toks |-> <<"https", "://", "job", "-", "boards", ".", "greenhouse", ".", "io", "/", "ada18", "/", "jobs">>],
      [kind |-> "greenhouse", form |-> "other", slug |-> <<"emb">>,
       toks |-> <<"greenhouse", ".", "io", "/", "embed", "/", "job_board", "?", "for", "=", "emb">>],
      [kind |-> "greenhouse", form |-> "sig", slug |-> NoSlug,
       toks |-> <<"grnh", ".", "se", "/", "x1">>],
      [kind |-> "lever", form |-> "hosted", slug |-> <<"owner">>,
       toks |-> <<"https", "://", "jobs", ".", "lever", ".", "co", "/", "owner", "/">>],
      [kind |-> "lever", form |-> "sig", slug |-> NoSlug,
       toks |-> <<"www", ".", "lever", ".", "co">>],
      [kind |-> "workable", form |-> "hosted", slug |-> <<"wk">>,
       toks |-> <<"https", "://", "apply", ".", "workable", ".", "com", "/", "wk">>],
      [kind |-> "workable", form |-> "sig", slug |-> NoSlug,
       toks |-> <<"www", ".", "workable", ".", "com">>],
      [kind |-> "rippling", form |-> "hosted", slug |-> <<"rp">>,
       toks |-> <<"https", "://", "ats", ".", "rippling", ".", "com", "/", "rp", "/", "jobs">>],
      [kind |-> "rippling", form |-> "sig", slug |-> NoSlug,
       toks |-> <<"rippling", "-", "ats", ".", "com">>],
      [kind |-> "yc", form |-> "hosted", slug |-> <<"willow">>,
       toks |-> <<"https", "://", "www", ".", "ycombinator", ".", "com", "/", "companies", "/", "willow", "/", "jobs">>],
      [kind |-> "none", form |-> "none", slug |-> NoSlug,
       toks |-> <<"https", "://", "acme", ".", "example", "/", "careers">>] }

\* the text of a fixture: its parts, separated by blanks
RECURSIVE Render(_)
Render(f) ==
    IF f = <<>> THEN <<>>
    ELSE IF Len(f) = 1 THEN f[1].toks
    ELSE f[1].toks \o <<" ">> \o Render(Tail(f))

Fixtures == UNION {[1..n -> Parts] : n \in 0..MaxParts}

PageUrls == { <<"https", "://", "acme", ".", "example">>,
              <<"https", "://", "acme", ".", "example", "/", "careers">> }

NotRun == [ats |-> "NotRun", slug |-> NoSlug]

InitClassify ==
    /\ fixture \in Fixtures
    /\ page_url \in PageUrls
    /\ html_result = NotRun
    /\ url_result = NotRun
    /\ company = NoCompany
    /\ siteDown = FALSE
    /\ sc = Idle
    /\ MainIdle

ClassifyHtml ==
    /\ html_result = NotRun
    /\ html_result' = detect_ats_from_html(Render(fixture), page_url)
    /\ UNCHANGED <<fixture, page_url, url_result, company, siteDown, sc>>
    /\ UNCHANGED mvars

ClassifyUrl ==
    /\ url_result = NotRun
    /\ url_result' = detect_ats_from_url(Render(fixture))
    /\ UNCHANGED <<fixture, page_url, html_result, company, siteDown, sc>>
    /\ UNCHANGED mvars

NextClassify == ClassifyHtml \/ ClassifyUrl

SpecClassify == InitClassify /\ [][NextClassify]_vars

-----------------------------------------------------------------------------
(* Properties of the classifiers, checked under SpecClassify *)

\* the ATS kinds both classifiers have a pattern for
Kinds == {"greenhouse", "lever", "ashby", "workable", "rippling"}

KindsOf(f) == {f[i].kind : i \in DOMAIN f} \ {"none"}

\* the text holds a signature substring of kind k, no slug-bearing pattern
\* and no signature of another kind
SigOnly(f, k) ==
    /\ \E i \in DOMAIN f : f[i].form = "sig" /\ f[i].kind = k
    /\ \A i \in DOMAIN f : f[i].form = "none" \/ (f[i].form = "sig" /\ f[i].kind = k)

\* the text holds the embedded-widget marker and no signature of another form
MarkerOnly(f) ==
    /\ \E i \in DOMAIN f : f[i].form = "marker"
    /\ \A i \in DOMAIN f : f[i].form \in {"marker", "none"}

\* the text holds the canonical hosted URL of kind k, once, and no other
\* signature
HostedOnly(f, k) ==
    \E i \in DOMAIN f :
        /\ f[i].form = "hosted" /\ f[i].kind = k
        /\ \A j \in DOMAIN f \ {i} : f[j].form = "none"

HostedSlug(f) == f[CHOOSE i \in DOMAIN f : f[i].form = "hosted"].slug

NoSignature(f) == \A i \in DOMAIN f : f[i].form = "none"

\* the text holds hosted URLs, with slugs, of at least two of the kinds
SeveralHosted(f) ==
    /\ \A i \in DOMAIN f : f[i].form = "hosted" /\ f[i].kind \in Kinds
    /\ Cardinality(KindsOf(f)) >= 2

BothRan == html_result # NotRun /\ url_result # NotRun

\* C8, as stated: on a text that holds the signature substring of a kind but
\* nothing its slug pattern matches, detect_ats_from_html returns that kind
\* with an absent slug, for each of the five kinds and for the embedded marker
C8_kind_with_absent_slug ==
    html_result # NotRun =>
        /\ \A k \in Kinds :
              SigOnly(fixture, k) => html_result = [ats |-> k, slug |-> NoSlug]
        /\ MarkerOnly(fixture) =>
              html_result = [ats |-> "ashby_embedded", slug |-> NoSlug]

\* C8, amended: on a text that holds the signature substring of ashby,
\* greenhouse, lever, workable or rippling but nothing its slug pattern
\* matches, detect_ats_from_html returns the unknown result (None, None); on a
\* text that holds the embedded marker and no ashbyhq.com slug it returns
\* ashby_embedded with the page's URL in the slug position
C8_signature_without_slug ==
    html_result # NotRun =>
        /\ \A k \in Kinds : SigOnly(fixture, k) => html_result = Unknown
        /\ MarkerOnly(fixture) =>
              html_result = [ats |-> "ashby_embedded", slug |-> page_url]

C8_witness ==
    /\ SigOnly(fixture, "lever")
    /\ Len(fixture) = 2
    /\ html_result = Unknown

\* C9, as stated: for each of greenhouse, lever, ashby, workable, rippling and
\* yc, both classifiers return (kind, S) on a text that holds only that kind's
\* canonical hosted URL with slug S; on a text with no signature both return
\* (None, None)
C9_six_kinds_classified ==
    BothRan =>
        /\ \A k \in Kinds \cup {"yc"} :
              HostedOnly(fixture, k) =>
                  /\ html_result = [ats |-> k, slug |-> HostedSlug(fixture)]
                  /\ url_result = [ats |-> k, slug |-> HostedSlug(fixture)]
        /\ NoSignature(fixture) => html_result = Unknown /\ url_result = Unknown

\* C9, amended: for each of greenhouse, lever, ashby, workable and rippling,
\* both classifiers return (kind, S) on a text that holds only that kind's
\* canonical hosted URL with slug S; on a text that holds only a yc hosted URL,
\* or no signature, both return (None, None)
C9_five_kinds_classified ==
    BothRan =>
        /\ \A k \in Kinds :
              HostedOnly(fixture, k) =>
                  /\ html_result = [ats |-> k, slug |-> HostedSlug(fixture)]
                  /\ url_result = [ats |-> k, slug |-> HostedSlug(fixture)]
        /\ HostedOnly(fixture, "yc") => html_result = Unknown /\ url_result = Unknown
        /\ NoSignature(fixture) => html_result = Unknown /\ url_result = Unknown

C9_witness ==
    /\ HostedOnly(fixture, "rippling")
    /\ html_result = [ats |-> "rippling", slug |-> <<"rp">>]
    /\ url_result = [ats |-> "rippling", slug |-> <<"rp">>]

-----------------------------------------------------------------------------
(* Properties of scrape_company, checked under Spec *)

\* KNOWN_ATS.get(name.lower()) finds an entry
HasOverride == LowerName(company.name) \in DOMAIN KNOWN_ATS

Returned(jobs, reason) ==
    sc.pc = "done" /\ sc.ret_jobs = jobs /\ sc.ret_reason = reason

\* the URLs the Locator requests on the company's site: the homepage and the
\* conventional paths
SiteUrls == {website} \cup {website \o JOBS_PATHS[i] : i \in DOMAIN JOBS_PATHS}

\* the Locator made no request
LocatorNotRun ==
    /\ ~sc.located
    /\ \A i \in DOMAIN sc.calls :
          /\ sc.calls[i].by \notin {"find_jobs_page", "check_page"}
          /\ sc.calls[i].url \notin SiteUrls

HomepageFetched ==
    \E i \in DOMAIN sc.calls :
        sc.calls[i] = [by |-> "find_jobs_page", op |-> "fetch_html", url |-> website]

\* the adapters entered by the dispatch of auto-detection, in order
IsAuto(a) == a.stage = "auto"
AutoAdapters == SelectSeq(sc.adapters, IsAuto)

\* the adapter of an ATS kind
AdapterFor(k) ==
    CASE k = "greenhouse" -> "scrape_greenhouse"
      [] k = "lever" -> "scrape_lever"
      [] k = "ashby" -> "scrape_ashby"
      [] k = "ashby_embedded" -> "scrape_ashby_embedded"
      [] k = "workable" -> "scrape_workable"
      [] k = "rippling" -> "scrape_rippling"
      [] OTHER -> "scrape_generic"

\* C1, as stated: for a company record with no website, whatever its name,
\* scrape_company makes no network call and enters no adapter, and returns
\* exactly ([], "no website")
C1_no_website_no_network ==
    company.website = <<>> =>
        /\ sc.calls = <<>>
        /\ sc.adapters = <<>>
        /\ sc.pc \in {"scrape_company", "done"}
        /\ sc.pc = "done" => Returned(<<>>, "no website")

\* C1, amended: for a company record with no website whose lower-cased name is
\* not a key of the override table, scrape_company makes no network call,
\* enters no adapter and returns exactly ([], "no website"); when the name is
\* a key of the table, the adapter of the override is entered first and makes
\* network calls, the Locator is not run, and scrape_company returns the
\* adapter's jobs if it returns any and ([], "no website") if it returns none
C1_no_website_without_override ==
    website = <<>> =>
        /\ ~HasOverride =>
              /\ sc.calls = <<>>
              /\ sc.adapters = <<>>
              /\ sc.pc \in {"scrape_company", "done"}
              /\ sc.pc = "done" => Returned(<<>>, "no website")
        /\ HasOverride =>
              /\ sc.pc # "scrape_company" =>
                    sc.adapters # <<>> /\ sc.adapters[1].stage = "override"
              /\ LocatorNotRun
              /\ sc.pc = "done" =>
                    /\ sc.override_ran
                    /\ sc.calls # <<>>
                    /\ IF sc.override_jobs # <<>>
                       THEN Returned(Stamp(sc.override_jobs, website), NoReason)
                       ELSE Returned(<<>>, "no website")

C1_witness ==
    /\ company.website = <<>>
    /\ ~HasOverride
    /\ sc.calls = <<>>
    /\ Returned(<<>>, "no website")

C4_first_adapter_matches_kind ==
    sc.located /\ sc.found.ats # NoAts =>
        /\ AutoAdapters # <<>>
        /\ AutoAdapters[1].fn = AdapterFor(sc.found.ats)

\* C5: every record of a job list scrape_company returns, by the override, by
\* an auto-detected ATS or by the generic adapter, has company_website equal
\* to the company's website with its trailing slashes removed
C5_website_stamped ==
    sc.pc = "done" =>
        \A i \in DOMAIN sc.ret_jobs : sc.ret_jobs[i].company_website = website

C5_witness ==
    /\ sc.pc = "done"
    /\ website = Site
    /\ company.website # website
    /\ sc.located
    /\ sc.found.url # <<>>
    /\ sc.found.ats = NoAts
    /\ sc.ret_jobs # <<>>
    /\ \A i \in DOMAIN sc.ret_jobs : sc.ret_jobs[i].company_website = Site

\* the company's website names a host, and the host is unreachable
Unreachable == siteDown /\ Host(company.website) # <<>>

\* C6, as stated: for a company whose website is an unreachable host,
\* scrape_company does not raise and returns an empty job list with a
\* non-empty failure reason
C6_unreachable_site_fails_softly ==
    Unreachable =>
        /\ sc.pc # "raised"
        /\ sc.pc = "done" => sc.ret_jobs = <<>> /\ sc.ret_reason # NoReason

\* C6, amended: for a company whose website is an unreachable host and whose
\* lower-cased name is not a key of the override table, or whose override's
\* adapter has returned zero jobs, scrape_company does not raise and returns
\* ([], "no jobs page found"); with an override, the override's adapter runs
\* first against the ATS's own host: scrape_company returns the jobs it
\* yields with no failure reason, and raises only if that adapter raises
C6_unreachable_site_without_override ==
    Unreachable =>
        /\ ~HasOverride \/ (sc.override_ran /\ sc.override_jobs = <<>>) =>
              /\ sc.pc # "raised"
              /\ sc.pc = "done" => Returned(<<>>, "no jobs page found")
        /\ HasOverride /\ sc.override_ran /\ sc.override_jobs # <<>> =>
              Returned(Stamp(sc.override_jobs, website), NoReason)
        /\ sc.pc = "raised" =>
              /\ HasOverride /\ ~sc.override_ran /\ LocatorNotRun
              /\ sc.adapters[Len(sc.adapters)].stage = "override"

C6_witness ==
    /\ Unreachable
    /\ ~HasOverride
    /\ Len(sc.calls) = 1 + Len(JOBS_PATHS)
    /\ Returned(<<>>, "no jobs page found")

-----------------------------------------------------------------------------
(* Properties of main, checked under SpecMain *)

\* the number of companies whose iteration has started
Started == IF mpc = "scraping" THEN idx ELSE idx - 1

\* the iterations started so far are those of the first companies of the
\* list, one each, in the order of the list; the report is written only after
\* the last one
InOrder ==
    mpc \in {"loop", "scraping", "done"} =>
        /\ Started <= Len(companies)
        /\ Len(logged) = Started
        /\ \A i \in 1..Started : logged[i] = companies[i].name
        /\ Len(failed) <= Started
        /\ mpc = "done" =>
              /\ Started = Len(companies)
              /\ output.written
              /\ output.failed_companies = failed
              /\ output.total_companies = Len(companies)

\* the step that ends an iteration records the failure, if there is one, and
\* moves on to the next company
Recorded ==
    mpc = "scraping" /\ sc.pc \in {"done", "raised"} =>
        /\ mpc' = "loop"
        /\ idx' = idx + 1
        /\ companies' = companies
        /\ logged' = logged
        /\ failed' = IF sc.pc = "raised"
                     THEN Append(failed, [name |-> company.name, reason |-> sc.error])
                     ELSE IF sc.ret_reason # NoReason
                     THEN Append(failed, [name |-> company.name, reason |-> sc.ret_reason])
                     ELSE failed

\* C7: main processes every company of the loaded list exactly once and in
\* input order; when scrape_company raises or returns a failure reason the
\* company is recorded in failed_companies with the reason, and the loop goes
\* on to the remaining companies: no failure of one company ends the run
C7_every_company_processed == []InOrder /\ [][Recorded]_vars

C7_witness ==
    /\ mpc = "done"
    /\ Len(companies) = 2
    /\ logged = <<companies[1].name, companies[2].name>>
    /\ Len(failed) = 2
    /\ failed[1] = [name |-> companies[1].name, reason |-> "ValueError"]
    /\ failed[2] = [name |-> companies[2].name, reason |-> "no jobs page found"]
    /\ output.failed_companies = failed

-----------------------------------------------------------------------------
(* Properties of the adapters, checked under Spec *)

LastCall == sc.calls[Len(sc.calls)]

LastAdapter == sc.adapters[Len(sc.adapters)]

\* the last step was the API request of adapter fn
JustAsked(fn) == sc.calls # <<>> /\ LastCall.by = fn /\ sc.resp # NoResponse

\* the JSON shape an adapter's API call succeeds on
GoodShapes(fn) ==
    CASE fn = "scrape_greenhouse" -> {"dict"}
      [] fn = "scrape_lever" -> {"list"}
      [] fn = "scrape_workable" -> {"dict"}
      [] fn = "scrape_ashby" -> {"dict"}
      [] fn = "scrape_yc" -> {"list"}
      [] OTHER -> {"list", "dict"}

\* the API call of adapter fn succeeded and held zero jobs
ZeroJobs(fn) ==
    /\ JustAsked(fn)
    /\ sc.resp.status = "ok"
    /\ sc.resp.shape \in GoodShapes(fn)
    /\ sc.resp.items = <<>>

\* adapter fn has called scrape_generic
GenericCalledBy(fn) ==
    /\ LastAdapter.fn = "scrape_generic"
    /\ LastAdapter.by = fn
    /\ sc.pc = "scrape_generic"

\* adapter fn has returned [] itself, with no other adapter called
EmptyReturnedBy(fn) ==
    /\ LastAdapter.fn = fn
    /\ IF LastAdapter.stage = "override"
       THEN sc.override_ran /\ sc.override_jobs = <<>>
       ELSE Returned(<<>>, NoReason)

ApiAdapters == {"scrape_greenhouse", "scrape_lever", "scrape_ashby", "scrape_workable",
                "scrape_rippling", "scrape_yc"}

\* the API call of adapter fn answered with well-formed JSON holding jobs
WellFormed(fn) ==
    /\ JustAsked(fn)
    /\ sc.resp.status = "ok"
    /\ sc.resp.shape \in GoodShapes(fn)
    /\ sc.resp.items # <<>>

\* adapter fn has returned, with no other adapter called
ReturnedBy(fn) ==
    /\ LastAdapter.fn = fn
    /\ IF LastAdapter.stage = "override" THEN sc.override_ran ELSE sc.pc = "done"

\* the list the last adapter returned
AdapterResult == IF LastAdapter.stage = "override" THEN sc.override_jobs ELSE sc.ret_jobs

\* C12, as stated: on a well-formed API response, whichever of the optional
\* fields title, department, location and url its jobs lack, each API-backed
\* adapter returns one record per job without falling back; every record has
\* a non-empty title, department "General" when the source has none and
\* location "" when the source has none
C12_normalization_total ==
    \A fn \in ApiAdapters :
        WellFormed(fn) =>
            /\ ReturnedBy(fn)
            /\ Len(AdapterResult) = Len(sc.resp.items)
            /\ \A i \in DOMAIN AdapterResult :
                  /\ AdapterResult[i].title # <<>>
                  /\ sc.resp.items[i].dept = Absent => AdapterResult[i].department = General
                  /\ sc.resp.items[i].loc = Absent => AdapterResult[i].location = <<>>

-----------------------------------------------------------------------------
(* Properties of the Generic adapter, checked under Spec *)

\* scrape_generic fetched a page, extracted from it and returned
GenericRan ==
    /\ sc.calls # <<>>
    /\ LastCall.by = "scrape_generic"
    /\ sc.page # NoHtml
    /\ ReturnedBy("scrape_generic")

HasSchemaMarkup(page) == \E i \in DOMAIN page : IsJobPosting(page[i])

HasContainers(page) == \E i \in DOMAIN page : IsJobContainer(page[i])

\* the records each strategy makes of the fetched page, on its own
SchemaRecords == schema_jobs(sc.page, sc.jobs_url, company.name)

ClassRecords ==
    class_scan(SelectSeq(sc.page, IsJobContainer), sc.jobs_url, company.name, {}, <<>>).jobs

LinkRecords == link_scan(Anchors(sc.page), sc.jobs_url, company.name, {}, <<>>).jobs

Records(jobs) == {jobs[i] : i \in DOMAIN jobs}

\* the list scrape_generic returned, as the adapter made it
GenericResult == Stamp(AdapterResult, <<>>)

\* C13: the list scrape_generic returns comes from exactly one strategy, the
\* first of schema.org JobPosting markup, class-keyword containers and keyword
\* link scan that yields a job; on a page with both JobPosting markup and
\* class-keyword containers only the schema.org records are returned
C13_one_strategy_by_priority ==
    GenericRan =>
        /\ GenericResult \in {SchemaRecords, ClassRecords, LinkRecords}
        /\ SchemaRecords # <<>> => GenericResult = SchemaRecords
        /\ SchemaRecords = <<>> /\ ClassRecords # <<>> => GenericResult = ClassRecords
        /\ SchemaRecords = <<>> /\ ClassRecords = <<>> => GenericResult = LinkRecords
        /\ HasSchemaMarkup(sc.page) /\ HasContainers(sc.page) =>
              /\ GenericResult = SchemaRecords
              /\ GenericResult # <<>>
              /\ Records(GenericResult) \cap
                    ((Records(ClassRecords) \cup Records(LinkRecords))
                        \ Records(SchemaRecords)) = {}

C13_witness ==
    /\ GenericRan
    /\ sc.page = PageJobs
    /\ ClassRecords # <<>>
    /\ LinkRecords # <<>>
    /\ Len(GenericResult) = 1
    /\ GenericResult[1].title = <<"Designer">>

-----------------------------------------------------------------------------
(* Properties of the Locator, checked under Spec *)

IsLocatorCall(c) == c.by \in {"find_jobs_page", "check_page"}

\* the requests the Locator has made, in order
LocatorCalls == SelectSeq(sc.calls, IsLocatorCall)

HomepageCall == [by |-> "find_jobs_page", op |-> "fetch_html", url |-> website]

\* the last step was the fetch of the homepage, and it succeeded
HomeFetched == sc.calls # <<>> /\ LastCall = HomepageCall /\ sc.page # NoHtml

\* what detect_ats_from_html makes of the homepage
HomeBinding == detect_ats_from_html(Serialize(sc.page), website)

\* C14: when the fetch of the homepage succeeds and detect_ats_from_html
\* classifies the homepage, find_jobs_page returns the homepage's URL with
\* that binding at once: no link of the homepage is followed and no
\* conventional path is requested
C14_classified_homepage_returns ==
    /\ HomeFetched /\ HomeBinding.ats # NoAts =>
          /\ sc.located
          /\ sc.found = [url |-> website, ats |-> HomeBinding.ats, slug |-> HomeBinding.slug]
          /\ LocatorCalls = <<HomepageCall>>
    /\ sc.located /\ sc.found.url = website /\ sc.found.ats # NoAts =>
          /\ LocatorCalls = <<HomepageCall>>
          /\ sc.pc \notin {"find_jobs_page", "fetch_sub", "try_path"}

C14_witness ==
    /\ HomeFetched
    /\ sc.page = PageGreenhouse
    /\ sc.found = [url |-> Site, ats |-> "greenhouse", slug |-> <<"acme">>]
    /\ sc.pc = "scrape_greenhouse"
    /\ Len(sc.calls) = 1


PathCall(i) == [by |-> "find_jobs_page", op |-> "GET", url |-> website \o JOBS_PATHS[i]]

IsPathCall(c) == c.by = "find_jobs_page" /\ c.op = "GET"

\* the conventional paths requested so far, in order
PathCalls == SelectSeq(sc.calls, IsPathCall)

\* the last step was the request of a conventional path, and its response had
\* status 200 and a body longer than 500
PathAccepted == Accepted(sc.path_resp)

\* what the resolved URL, and then the body, of that response classify as
PathUrlBinding == detect_ats_from_url(sc.path_resp.url)

PathBodyBinding == detect_ats_from_html(Serialize(sc.path_resp.page), sc.path_resp.url)

\* C15: the conventional paths are requested in list order; the first response
\* with status 200 and a body longer than 500 ends the stage, no later path is
\* requested after it; its resolved URL is classified before its body; if
\* neither gives an ATS the Locator still returns that page's URL; and
\* "no jobs page found" is reported only when no path gave such a response
C15_first_good_path_ends_stage ==
    /\ \A i \in DOMAIN PathCalls : PathCalls[i] = PathCall(i)
    /\ sc.accepted # 0 => Len(PathCalls) = sc.accepted /\ sc.pc # "try_path"
    /\ PathAccepted /\ PathUrlBinding.ats # NoAts =>
          /\ sc.located
          /\ sc.found = [url |-> sc.path_resp.url, ats |-> PathUrlBinding.ats,
                         slug |-> PathUrlBinding.slug]
    /\ PathAccepted /\ PathUrlBinding.ats = NoAts /\ PathBodyBinding.ats # NoAts =>
          /\ sc.located
          /\ sc.found = [url |-> sc.path_resp.url, ats |-> PathBodyBinding.ats,
                         slug |-> PathBodyBinding.slug]
    /\ sc.accepted # 0 /\ sc.located => sc.found.url # <<>>
    /\ sc.accepted # 0 /\ sc.located /\ sc.found.ats = NoAts => sc.found.url = sc.link_page
    /\ Returned(<<>>, "no jobs page found") => sc.accepted = 0

-----------------------------------------------------------------------------
(* Properties of the Ashby adapter, checked under Spec *)

\* the number of API requests the running call of scrape_ashby has made
AshbyTried == IF sc.pc = "scrape_ashby" THEN sc.variant - 1 ELSE sc.variant

\* the slug as given, lowercased, capitalized
AshbyOrder == <<sc.slug, Lower(sc.slug), Capitalize(sc.slug)>>

AshbyCall(i) == [by |-> "scrape_ashby", op |-> "GET", url |-> AshbyApi(AshbyOrder[i])]

\* the response to the last variant held at least one job
AshbyYields == sc.resp.status = "ok" /\ sc.resp.shape = "dict" /\ sc.resp.items # <<>>

\* scrape_ashby has called scrape_ashby_embedded, which is about to make its
\* request or has just made it
EmbeddedAfterAshby ==
    /\ sc.adapters # <<>>
    /\ LastAdapter.fn = "scrape_ashby_embedded"
    /\ LastAdapter.by = "scrape_ashby"
    /\ sc.calls # <<>>
    /\ sc.pc = "scrape_ashby_embedded" \/ LastCall.by = "scrape_ashby_embedded"

\* C16: scrape_ashby asks the API for the slug as given, then lowercased, then
\* capitalized, at most three requests in one call; it returns the jobs of the
\* first variant whose response holds a job and asks for no later variant;
\* only after all three variants gave no job or failed does it call
\* scrape_ashby_embedded on the fallback URL
C16_ashby_variants_in_order ==
    /\ JustAsked("scrape_ashby") =>
          /\ AshbyTried \in 1..3
          /\ \A i \in 1..AshbyTried :
                sc.calls[Len(sc.calls) - AshbyTried + i] = AshbyCall(i)
          /\ Len(sc.calls) > AshbyTried =>
                sc.calls[Len(sc.calls) - AshbyTried].by # "scrape_ashby"
          /\ AshbyYields =>
                /\ ReturnedBy("scrape_ashby")
                /\ Stamp(AdapterResult, <<>>) =
                      Stamp([i \in DOMAIN sc.resp.items |->
                                ashby_job(sc.resp.items[i], sc.jobs_url, company.name)], <<>>)
          /\ ~AshbyYields /\ AshbyTried < 3 =>
                sc.pc = "scrape_ashby" /\ LastAdapter.fn = "scrape_ashby"
          /\ ~AshbyYields /\ AshbyTried = 3 =>
                /\ EmbeddedAfterAshby
                /\ sc.pc = "scrape_ashby_embedded"
    /\ EmbeddedAfterAshby =>
          /\ sc.variant = 3
          /\ LET n == IF sc.pc = "scrape_ashby_embedded"
                      THEN Len(sc.calls) ELSE Len(sc.calls) - 1
             IN  /\ n >= 3
                 /\ \A i \in 1..3 : sc.calls[n - 3 + i] = AshbyCall(i)
                 /\ LastCall.by = "scrape_ashby_embedded" => LastCall.url = sc.jobs_url

\* the third variant is the first to hold a job, and its jobs are returned
C16_witness ==
    /\ JustAsked("scrape_ashby")
    /\ AshbyTried = 3
    /\ AshbyYields
    /\ sc.slug # Lower(sc.slug)
    /\ ReturnedBy("scrape_ashby")
    /\ Len(AdapterResult) >= 1

-----------------------------------------------------------------------------
(* Termination and cost of scrape_company, checked under SpecFair *)

Terminated == sc.pc \in {"done", "raised"}

RECURSIVE MaxAnchors(_)
MaxAnchors(pages) ==
    IF pages = {} THEN 0
    ELSE LET p == CHOOSE q \in pages : TRUE
             m == MaxAnchors(pages \ {p})
         IN  IF Len(Anchors(p)) > m THEN Len(Anchors(p)) ELSE m

\* requests one stage's adapters make at most: three Ashby variants and the
\* embedded extraction
StageCalls == Len(AshbyVariants(NoSlug)) + 1

\* requests one scrape makes at most: the homepage, every conventional path,
\* every anchor of each of those pages, and the adapters of the two stages
CallBound ==
    1 + Len(JOBS_PATHS) + (1 + Len(JOBS_PATHS)) * MaxAnchors(SitePages) + 2 * StageCalls

\* the page the Locator is looking at is the first one a path answered with
IsFirstPathPage == PathAccepted => sc.accepted = Len(PathCalls)

\* the homepage is fetched at most once, every path is requested at most once
LocatorOnce ==
    /\ Len(SelectSeq(sc.calls, LAMBDA c : c = HomepageCall)) <= 1
    /\ Len(PathCalls) <= Len(JOBS_PATHS)
    /\ \A i \in DOMAIN PathCalls : PathCalls[i] = PathCall(i)

\* after the fetch of a linked page the loop goes on over the anchors of the
\* page that held the link: the anchors of the fetched page are not used
OneHop ==
    sc.pc = "fetch_sub" /\ sc'.pc = "fetch_sub" =>
        /\ sc'.link_page = sc.link_page
        /\ \E k \in 1..Len(sc.links) : sc'.links = SubSeq(sc.links, k + 1, Len(sc.links))

\* no adapter is entered twice in one scrape
NoAdapterTwice ==
    \A i, j \in DOMAIN sc.adapters : i < j => sc.adapters[i].fn # sc.adapters[j].fn

\* no adapter is entered twice in one stage
OncePerStage ==
    \A i, j \in DOMAIN sc.adapters :
        i < j /\ sc.adapters[i].stage = sc.adapters[j].stage =>
            sc.adapters[i].fn # sc.adapters[j].fn

\* the override stage is not entered again after auto-detection has begun
StagesInOrder ==
    \A i, j \in DOMAIN sc.adapters :
        i < j /\ sc.adapters[i].stage = "auto" => sc.adapters[j].stage = "auto"

=============================================================================
